---- MODULE Spec2Model ----
(***************************************************************************)
(* RTP capability negotiation of mediasoup-go (mediasoup/ortc.go).         *)
(*                                                                         *)
(* Go values are modelled as follows.                                      *)
(*  - A string that the code inspects (mimeType, kind) is a sequence of    *)
(*    one-character strings, so that strings.ToLower, HasSuffix, HasPrefix *)
(*    and Split are computed character by character.  A string that is     *)
(*    only compared for equality (feedback type, uri, profile-level-id,    *)
(*    cname, rid) is a TLA+ string.                                        *)
(*  - *RtpCodecParameter is an address in the variable heap (a sequence of *)
(*    parameter objects); address 0 is nil.  Copying a codec struct copies *)
(*    the address, not the object, as in Go.                               *)
(*  - A nil slice and an empty slice are both <<>>.                        *)
(*  - error values are "none" (nil), "TypeError", "UnsupportedError" and   *)
(*    "Error" (errors.New).                                                *)
(***************************************************************************)
EXTENDS Integers, Sequences, FiniteSets, TLC

VARIABLES
    pc,                 \* which call of the negotiation has returned last
    heap,               \* the RtpCodecParameter objects, by address
    heap0,              \* the heap as it was before the first call
    supportedCodecs,    \* GetSupportedRtpCapabilities().Codecs
    supportedExts,      \* GetSupportedRtpCapabilities().HeaderExtensions
    mediaCodecs,        \* argument of GenerateRouterRtpCapabilities
    routerCaps,         \* caps returned by GenerateRouterRtpCapabilities
    routerErr,          \* err returned by GenerateRouterRtpCapabilities
    kind,               \* argument kind of GetConsumableRtpParameters
    producerParams,     \* the caller's producer RtpParameters
    rtpMapping,         \* rtpMapping returned by GetProducerRtpParametersMapping
    mappingErr,         \* err returned by GetProducerRtpParametersMapping
    consumableParams,   \* consumableParams (returned, or given to the consumer calls)
    consumableErr,      \* err returned by GetConsumableRtpParameters
    consumerCaps,       \* caps argument of CanConsume / GetConsumerRtpParameters
    canConsume,         \* result of CanConsume: "unset", TRUE or FALSE as a string
    consumerParams,     \* consumerParams returned by GetConsumerRtpParameters
    consumerErr,        \* err returned by GetConsumerRtpParameters
    pipeParams          \* result of GetPipeConsumerRtpParameters

vars == << pc, heap, heap0, supportedCodecs, supportedExts, mediaCodecs, routerCaps,
           routerErr, kind, producerParams, rtpMapping, mappingErr, consumableParams,
           consumableErr, consumerCaps, canConsume, consumerParams, consumerErr,
           pipeParams >>

-----------------------------------------------------------------------------
(* Bounds of the model *)

MaxMediaCodecs == 3
MaxRun == 90
MaxProducerCodecs == 3
MaxConsumableCodecs == 3
MaxCapCodecs == 2

-----------------------------------------------------------------------------
(* Go strings package *)

UpperChars == << "A","B","C","D","E","F","G","H","I","J","K","L","M",
                 "N","O","P","Q","R","S","T","U","V","W","X","Y","Z" >>
LowerChars == << "a","b","c","d","e","f","g","h","i","j","k","l","m",
                 "n","o","p","q","r","s","t","u","v","w","x","y","z" >>

\* unicode.ToLower on the letters A-Z, as a table
LowerOf ==
    [ c \in { UpperChars[i] : i \in 1..Len(UpperChars) } |->
        LowerChars[CHOOSE i \in 1..Len(UpperChars) : UpperChars[i] = c] ]

ToLowerChar(c) == IF c \in DOMAIN LowerOf THEN LowerOf[c] ELSE c

ToLower(s) == [i \in 1..Len(s) |-> ToLowerChar(s[i])]

HasSuffix(s, suffix) ==
    /\ Len(s) >= Len(suffix)
    /\ SubSeq(s, Len(s) - Len(suffix) + 1, Len(s)) = suffix

HasPrefix(s, prefix) ==
    /\ Len(s) >= Len(prefix)
    /\ SubSeq(s, 1, Len(prefix)) = prefix

\* strings.Split(s, "/")[0]: the text before the first "/", or all of s
SplitSlashFirst(s) ==
    IF \E i \in 1..Len(s) : s[i] = "/"
    THEN SubSeq(s, 1, (CHOOSE i \in 1..Len(s) :
                          /\ s[i] = "/"
                          /\ \A j \in 1..(i-1) : s[j] # "/") - 1)
    ELSE s

sAudio == << "a","u","d","i","o" >>
sVideo == << "v","i","d","e","o" >>
sSlashRtx == << "/","r","t","x" >>
sAudioSlash == << "a","u","d","i","o","/" >>
sVideoH264 == << "v","i","d","e","o","/","h","2","6","4" >>

\* fmt.Sprintf("%s/rtx", kind)
SprintfRtx(k) == k \o sSlashRtx

-----------------------------------------------------------------------------
(* Types *)

ZeroParameter ==
    [ PacketizationMode |-> 0, ProfileLevelId |-> "", LevelAsymmetryAllowed |-> 0,
      Apt |-> 0 ]

ZeroCodec ==
    [ Kind |-> << >>, MimeType |-> << >>, ClockRate |-> 0, Channels |-> 0,
      PayloadType |-> 0, PreferredPayloadType |-> 0, Parameters |-> 0,
      RtcpFeedback |-> << >> ]

ZeroParams ==
    [ Codecs |-> << >>, HeaderExtensions |-> << >>, Encodings |-> << >>,
      Rtcp |-> [ Cname |-> "", ReducedSize |-> FALSE, Mux |-> "nil" ] ]

ZeroCaps == [ Codecs |-> << >>, HeaderExtensions |-> << >> ]

ZeroMapping == [ Codecs |-> << >>, HeaderExtensions |-> << >>, Encodings |-> << >> ]

DYNAMIC_PAYLOAD_TYPES ==
    << 100, 101, 102, 103, 104, 105, 106, 107, 108, 109, 110, 111, 112, 113, 114, 115,
       116, 117, 118, 119, 120, 121, 122, 123, 124, 125, 126, 127, 96, 97, 98, 99, 77,
       78, 79, 80, 81, 82, 83, 84, 85, 86, 87, 88, 89, 90, 91, 92, 93, 94, 95, 35, 36,
       37, 38, 39, 40, 41, 42, 43, 44, 45, 46, 47, 48, 49, 50, 51, 52, 53, 54, 55, 56,
       57, 58, 59, 60, 61, 62, 63, 64, 65, 66, 67, 68, 69, 70, 71 >>

codecMatchNormal == 0
codecMatchStrict == 1
codecMatchModify == 16
codecMatchStrictAndModify == codecMatchStrict + codecMatchModify

\* mode&codecMatchStrict > 0
StrictBit(mode) == (mode \div codecMatchStrict) % 2 = 1
\* mode&codecMatchModify > 0
ModifyBit(mode) == (mode \div codecMatchModify) % 2 = 1

\* the object a *RtpCodecParameter points to; matchedCodecs substitutes an
\* empty object for nil
Deref(h, p) == IF p = 0 THEN ZeroParameter ELSE h[p]

-----------------------------------------------------------------------------
(* h264profile.GenerateProfileLevelIdForAnswer (external package) *)

H264Profile(id) ==
    CASE id = "" -> "42e0"
      [] id = "42e01f" -> "42e0"
      [] id = "42e01e" -> "42e0"
      [] id = "4d001f" -> "4d00"
      [] id = "4d001e" -> "4d00"
      [] OTHER -> "invalid"

H264Level(id) ==
    CASE id = "42e01e" -> 30
      [] id = "4d001e" -> 30
      [] OTHER -> 31

H264ToString(profile, level) ==
    CASE profile = "42e0" /\ level = 31 -> "42e01f"
      [] profile = "42e0" /\ level = 30 -> "42e01e"
      [] profile = "4d00" /\ level = 31 -> "4d001f"
      [] OTHER -> "4d001e"

GenerateProfileLevelIdForAnswer(local, remote) ==
    IF local.ProfileLevelId = "" /\ remote.ProfileLevelId = ""
    THEN [ err |-> FALSE, id |-> "" ]
    ELSE IF \/ H264Profile(local.ProfileLevelId) = "invalid"
            \/ H264Profile(remote.ProfileLevelId) = "invalid"
            \/ H264Profile(local.ProfileLevelId) # H264Profile(remote.ProfileLevelId)
    THEN [ err |-> TRUE, id |-> "" ]
    ELSE LET asym == local.LevelAsymmetryAllowed = 1 /\ remote.LevelAsymmetryAllowed = 1
             ll == H264Level(local.ProfileLevelId)
             rl == H264Level(remote.ProfileLevelId)
             minl == IF ll < rl THEN ll ELSE rl
         IN [ err |-> FALSE,
              id |-> H264ToString(H264Profile(local.ProfileLevelId),
                                  IF asym THEN ll ELSE minl) ]

-----------------------------------------------------------------------------
(* Validation and matching *)

\* checkCodecCapability: the error
checkCodecCapabilityErr(codec) ==
    IF Len(codec.MimeType) = 0 \/ codec.ClockRate = 0 THEN "TypeError" ELSE "none"

\* checkCodecCapability: the codec after the call (kind added if not present)
checkCodecCapability(codec) ==
    IF checkCodecCapabilityErr(codec) # "none" THEN codec
    ELSE IF Len(codec.Kind) = 0
    THEN [codec EXCEPT !.Kind = ToLower(SplitSlashFirst(codec.MimeType))]
    ELSE codec

checkCodecParameters(codec) ==
    IF Len(codec.MimeType) = 0 \/ codec.ClockRate = 0 THEN "TypeError" ELSE "none"

\* matchedCodecs(aCodec, bCodec, mode) on heap h: the result, the candidate
\* *aCodec after the call and the heap after the call
matchedCodecs(aCodec, bCodec, mode, h) ==
    LET aMimeType == ToLower(aCodec.MimeType)
        bMimeType == ToLower(bCodec.MimeType)
        no  == [ matched |-> FALSE, aCodec |-> aCodec, heap |-> h ]
        yes == [ matched |-> TRUE, aCodec |-> aCodec, heap |-> h ]
    IN
    IF aMimeType # bMimeType THEN no
    ELSE IF aCodec.ClockRate # bCodec.ClockRate THEN no
    ELSE IF /\ HasPrefix(aMimeType, sAudioSlash)
            /\ aCodec.Channels > 0
            /\ bCodec.Channels > 0
            /\ aCodec.Channels # bCodec.Channels THEN no
    ELSE IF aMimeType = sVideoH264
    THEN LET aParameters == Deref(h, aCodec.Parameters)
             bParameters == Deref(h, bCodec.Parameters)
         IN
         IF aParameters.PacketizationMode # bParameters.PacketizationMode THEN no
         ELSE IF StrictBit(mode)
         THEN LET r == GenerateProfileLevelIdForAnswer(aParameters, bParameters)
              IN
              IF r.err THEN no
              ELSE IF ModifyBit(mode)
              THEN IF aCodec.Parameters = 0
                   THEN \* aParameters is a fresh object; only *aCodec points to it
                        [ matched |-> TRUE,
                          aCodec |-> [aCodec EXCEPT !.Parameters = Len(h) + 1],
                          heap |-> Append(h, [ZeroParameter EXCEPT
                                                !.ProfileLevelId = r.id]) ]
                   ELSE \* aParameters is the object aCodec.Parameters points to
                        [ matched |-> TRUE,
                          aCodec |-> aCodec,
                          heap |-> [h EXCEPT ![aCodec.Parameters].ProfileLevelId = r.id] ]
              ELSE yes
         ELSE yes
    ELSE yes

RECURSIVE selectFrom(_, _, _, _, _)
selectFrom(aCodec, bCodecs, mode, h, k) ==
    IF k > Len(bCodecs)
    THEN [ codec |-> ZeroCodec, matched |-> FALSE, aCodec |-> aCodec, heap |-> h ]
    ELSE LET r == matchedCodecs(aCodec, bCodecs[k], mode, h)
         IN IF r.matched
            THEN [ codec |-> bCodecs[k], matched |-> TRUE,
                   aCodec |-> r.aCodec, heap |-> r.heap ]
            ELSE selectFrom(aCodec, bCodecs, mode, h, k + 1)

selectMatchedCodecs(aCodec, bCodecs, mode, h) == selectFrom(aCodec, bCodecs, mode, h, 1)

matchHeaderExtensions(aExt, bExt) ==
    IF aExt.Kind # "" /\ bExt.Kind # "" /\ aExt.Kind # bExt.Kind
    THEN FALSE
    ELSE aExt.Uri = bExt.Uri

\* strings.HasSuffix(strings.ToLower(codec.MimeType), "/rtx")
IsRtxLower(codec) == HasSuffix(ToLower(codec.MimeType), sSlashRtx)

\* strings.HasSuffix(codec.MimeType, "/rtx")
IsRtxExact(codec) == HasSuffix(codec.MimeType, sSlashRtx)

-----------------------------------------------------------------------------
(* GenerateRouterRtpCapabilities *)

\* mergo.Merge(dst, src, mergo.WithOverride): every non-zero field of src
\* replaces the field of dst
MergeWithOverride(dst, src) ==
    [ f \in DOMAIN dst |-> IF src[f] # ZeroParameter[f] THEN src[f] ELSE dst[f] ]

\* a pool check that gives up while one entry is left
PoolExhaustedEarly(idx) == idx + 1 >= Len(DYNAMIC_PAYLOAD_TYPES)

\* dynamicPayloadTypeIdx >= len(DYNAMIC_PAYLOAD_TYPES)
PoolExhausted(idx) == idx >= Len(DYNAMIC_PAYLOAD_TYPES)

\* the RTX codec of lines 106-115; its Parameters object is allocated at
\* address p
RtxCodecFor(codec, pt, p) ==
    [ ZeroCodec EXCEPT !.Kind = codec.Kind,
                       !.MimeType = SprintfRtx(codec.Kind),
                       !.PreferredPayloadType = pt,
                       !.ClockRate = codec.ClockRate,
                       !.Parameters = p ]

\* an RTX parameter object that takes apt from the field PayloadType
RtxParameterFromPayloadType(codec) == [ ZeroParameter EXCEPT !.Apt = codec.PayloadType ]

\* &RtpCodecParameter{Apt: codec.PreferredPayloadType} at lines 112-114
RtxParameterFor(codec) == [ ZeroParameter EXCEPT !.Apt = codec.PreferredPayloadType ]

\* lines 63-68
NormalizeChannels(codec) ==
    IF codec.Kind # sAudio THEN [codec EXCEPT !.Channels = 0]
    ELSE IF codec.Channels = 0 THEN [codec EXCEPT !.Channels = 1]
    ELSE codec

\* lines 71-73: the codec, pointing to a new object at the end of h if it
\* pointed to none
WithParameters(codec, h) ==
    IF codec.Parameters = 0 THEN [codec EXCEPT !.Parameters = Len(h) + 1] ELSE codec

\* lines 71-76: the heap after the object is allocated (if codec had none)
\* and the parameters of mediaCodec are merged into the object at address p
MergedHeap(codec, mediaCodec, h, p) ==
    IF mediaCodec.Parameters = 0
    THEN IF codec.Parameters = 0 THEN Append(h, ZeroParameter) ELSE h
    ELSE IF codec.Parameters = 0
    THEN Append(h, MergeWithOverride(ZeroParameter, h[mediaCodec.Parameters]))
    ELSE [h EXCEPT ![p] = MergeWithOverride(h[p], h[mediaCodec.Parameters])]

\* lines 95-121: codec has its payload type; idx is dynamicPayloadTypeIdx
GenerateAppend(st, codec, h, idx) ==
    IF codec.Kind = sVideo
    THEN IF PoolExhausted(idx)
         THEN [ Codecs |-> Append(st.Codecs, codec), heap |-> h, idx |-> idx,
                err |-> "Error" ]
         ELSE [ Codecs |-> st.Codecs \o
                           << codec,
                              RtxCodecFor(codec, DYNAMIC_PAYLOAD_TYPES[idx + 1],
                                          Len(h) + 1) >>,
                heap |-> Append(h, RtxParameterFor(codec)),
                idx |-> idx + 1,
                err |-> "none" ]
    ELSE [ Codecs |-> Append(st.Codecs, codec), heap |-> h, idx |-> idx, err |-> "none" ]

\* lines 83-93
GenerateAssign(st, codec, h) ==
    IF codec.PreferredPayloadType # 0 THEN GenerateAppend(st, codec, h, st.idx)
    ELSE IF PoolExhausted(st.idx) THEN [st EXCEPT !.heap = h, !.err = "Error"]
    ELSE GenerateAppend(st,
                        [codec EXCEPT !.PreferredPayloadType =
                                          DYNAMIC_PAYLOAD_TYPES[st.idx + 1]],
                        h, st.idx + 1)

\* lines 57-81: sel is what selectMatchedCodecs returned
GenerateMatched(st, mediaCodec, sel) ==
    IF ~sel.matched THEN [st EXCEPT !.err = "UnsupportedError"]
    ELSE GenerateAssign(st,
                        WithParameters(NormalizeChannels(sel.codec), st.heap),
                        MergedHeap(sel.codec, mediaCodec, st.heap, sel.codec.Parameters))

\* one iteration of the loop over mediaCodecs; st = the locals caps.Codecs,
\* dynamicPayloadTypeIdx, err and the heap
GenerateStep(st, mediaCodec, supported) ==
    IF checkCodecCapabilityErr(mediaCodec) # "none"
    THEN [st EXCEPT !.err = "TypeError"]
    ELSE GenerateMatched(st, checkCodecCapability(mediaCodec),
                         selectMatchedCodecs(checkCodecCapability(mediaCodec), supported,
                                             codecMatchNormal, st.heap))

RECURSIVE GenerateLoop(_, _, _, _)
GenerateLoop(st, codecs, supported, k) ==
    IF k > Len(codecs) \/ st.err # "none" THEN st
    ELSE GenerateLoop(GenerateStep(st, codecs[k], supported), codecs, supported, k + 1)

\* the values (caps, err) the call returns and the heap it leaves
GenerateRouterRtpCapabilities(codecs, supported, exts, h) ==
    IF Len(codecs) = 0
    THEN [ caps |-> ZeroCaps, err |-> "TypeError", heap |-> h ]
    ELSE LET st == GenerateLoop([ Codecs |-> << >>, heap |-> h, idx |-> 0,
                                  err |-> "none" ], codecs, supported, 1)
         IN [ caps |-> [ Codecs |-> st.Codecs, HeaderExtensions |-> exts ],
              err |-> st.err,
              heap |-> st.heap ]

-----------------------------------------------------------------------------
(* GetProducerRtpParametersMapping *)

MinOf(S) == CHOOSE x \in S : \A y \in S : x <= y

\* codecToCapCodec is keyed by &params.Codecs[i]: a function of the index i.
\* First loop (lines 139-159), one iteration; ret = the function has returned.
MappingPass1Step(st, params, caps, i) ==
    LET codec == params.Codecs[i]
        e == checkCodecParameters(codec)
    IN
    IF e # "none" THEN [st EXCEPT !.err = e, !.ret = TRUE]
    ELSE IF IsRtxLower(codec) THEN [st EXCEPT !.err = e]
    ELSE LET sel == selectMatchedCodecs(codec, caps.Codecs, codecMatchStrictAndModify,
                                        st.heap)
         IN [ err |-> IF sel.matched THEN e ELSE "UnsupportedError",
              map |-> (i :> sel.codec) @@ st.map,
              heap |-> sel.heap,
              ret |-> FALSE ]

\* Second loop (lines 161-209), one iteration
MappingPass2Step(st, params, caps, i) ==
    LET codec == params.Codecs[i] IN
    IF ~IsRtxLower(codec) THEN st
    ELSE IF codec.Parameters = 0 THEN [st EXCEPT !.err = "TypeError", !.ret = TRUE]
    ELSE
    LET apt == st.heap[codec.Parameters].Apt
        js == { j \in 1..Len(params.Codecs) : params.Codecs[j].PayloadType = apt }
    IN
    IF js = {} THEN [st EXCEPT !.err = "TypeError", !.ret = TRUE]
    ELSE
    LET associatedMediaCodec == MinOf(js)
        capMediaCodec == IF associatedMediaCodec \in DOMAIN st.map
                         THEN st.map[associatedMediaCodec]
                         ELSE ZeroCodec
        \* the loop stops at the first RTX capability codec that has no
        \* Parameters (nil dereference) or whose apt is the wanted one
        ks == { k \in 1..Len(caps.Codecs) :
                  /\ IsRtxLower(caps.Codecs[k])
                  /\ \/ caps.Codecs[k].Parameters = 0
                     \/ st.heap[caps.Codecs[k].Parameters].Apt =
                            capMediaCodec.PreferredPayloadType }
    IN
    IF ks = {} THEN [st EXCEPT !.err = "UnsupportedError", !.ret = TRUE]
    ELSE IF caps.Codecs[MinOf(ks)].Parameters = 0
    THEN [st EXCEPT !.err = "panic", !.ret = TRUE]
    ELSE [st EXCEPT !.map = (i :> caps.Codecs[MinOf(ks)]) @@ st.map]

RECURSIVE MappingPass1(_, _, _, _)
MappingPass1(st, params, caps, i) ==
    IF i > Len(params.Codecs) \/ st.ret THEN st
    ELSE MappingPass1(MappingPass1Step(st, params, caps, i), params, caps, i + 1)

RECURSIVE MappingPass2(_, _, _, _)
MappingPass2(st, params, caps, i) ==
    IF i > Len(params.Codecs) \/ st.ret THEN st
    ELSE MappingPass2(MappingPass2Step(st, params, caps, i), params, caps, i + 1)

\* lines 212-217: the map is iterated in an order Go does not fix; order is
\* a permutation of the indices of params.Codecs
RECURSIVE MappingCodecs(_, _, _, _)
MappingCodecs(map, params, order, k) ==
    IF k > Len(order) THEN << >>
    ELSE IF order[k] \in DOMAIN map
    THEN << [ PayloadType |-> params.Codecs[order[k]].PayloadType,
              MappedPayloadType |-> map[order[k]].PreferredPayloadType ] >>
         \o MappingCodecs(map, params, order, k + 1)
    ELSE MappingCodecs(map, params, order, k + 1)

\* lines 220-246: [exts, err]
RECURSIVE MappingHeaderExtensions(_, _, _)
MappingHeaderExtensions(exts, capExts, k) ==
    IF k > Len(exts) THEN [ exts |-> << >>, err |-> "none" ]
    ELSE LET ms == { m \in 1..Len(capExts) : matchHeaderExtensions(exts[k], capExts[m]) }
         IN IF ms = {} THEN [ exts |-> << >>, err |-> "UnsupportedError" ]
            ELSE LET rest == MappingHeaderExtensions(exts, capExts, k + 1)
                 IN [ exts |-> << [ Id |-> exts[k].Id,
                                    MappedId |-> capExts[MinOf(ms)].PreferredId ] >>
                                \o rest.exts,
                      err |-> rest.err ]

\* lines 249-257; random[i] is the value generateRandomNumber() returns
MappingEncodings(encodings, random) ==
    [ i \in 1..Len(encodings) |->
        [ Rid |-> encodings[i].Rid, Ssrc |-> encodings[i].Ssrc,
          MappedSsrc |-> random[i] ] ]

\* the values (rtpMapping, err) the call returns and the heap it leaves
GetProducerRtpParametersMapping(params, caps, h, order, random) ==
    LET st0 == [ err |-> "none", map |-> << >>, heap |-> h, ret |-> FALSE ]
        st1 == MappingPass1(st0, params, caps, 1)
        st2 == IF st1.ret THEN st1 ELSE MappingPass2(st1, params, caps, 1)
    IN
    IF st2.ret
    THEN [ rtpMapping |-> ZeroMapping, err |-> st2.err, heap |-> st2.heap ]
    ELSE
    LET codecs == MappingCodecs(st2.map, params, order, 1)
        he == MappingHeaderExtensions(params.HeaderExtensions, caps.HeaderExtensions, 1)
    IN
    IF he.err # "none"
    THEN [ rtpMapping |-> [ Codecs |-> codecs, HeaderExtensions |-> he.exts,
                            Encodings |-> << >> ],
           err |-> he.err, heap |-> st2.heap ]
    ELSE [ rtpMapping |-> [ Codecs |-> codecs, HeaderExtensions |-> he.exts,
                            Encodings |-> MappingEncodings(params.Encodings, random) ],
           err |-> st2.err, heap |-> st2.heap ]

-----------------------------------------------------------------------------
(* GetConsumableRtpParameters *)

\* lines 273-333, one iteration; st = [Codecs, err, ret]
ConsumableStep(st, codec, caps, mapping, h) ==
    LET e == checkCodecParameters(codec) IN
    IF e # "none" THEN [st EXCEPT !.err = e, !.ret = TRUE]
    ELSE IF IsRtxLower(codec) THEN st
    ELSE
    LET es == { n \in 1..Len(mapping.Codecs) :
                  mapping.Codecs[n].PayloadType = codec.PayloadType }
        consumableCodecPt == IF es = {} THEN 0
                             ELSE mapping.Codecs[MinOf(es)].MappedPayloadType
        cs == { n \in 1..Len(caps.Codecs) :
                  caps.Codecs[n].PreferredPayloadType = consumableCodecPt }
        matchedCapCodec == IF cs = {} THEN ZeroCodec ELSE caps.Codecs[MinOf(cs)]
        consumableCodec ==
            [ ZeroCodec EXCEPT !.MimeType = matchedCapCodec.MimeType,
                               !.ClockRate = matchedCapCodec.ClockRate,
                               !.Channels = matchedCapCodec.Channels,
                               !.RtcpFeedback = matchedCapCodec.RtcpFeedback,
                               !.Parameters = codec.Parameters,
                               !.PayloadType = matchedCapCodec.PreferredPayloadType ]
        rs == { n \in 1..Len(caps.Codecs) :
                  /\ IsRtxLower(caps.Codecs[n])
                  /\ \/ caps.Codecs[n].Parameters = 0
                     \/ h[caps.Codecs[n].Parameters].Apt = consumableCodec.PayloadType }
    IN
    IF rs = {} THEN [st EXCEPT !.Codecs = Append(st.Codecs, consumableCodec)]
    ELSE IF caps.Codecs[MinOf(rs)].Parameters = 0
    THEN [st EXCEPT !.Codecs = Append(st.Codecs, consumableCodec),
                    !.err = "panic", !.ret = TRUE]
    ELSE
    LET consumableCapRtxCodec == caps.Codecs[MinOf(rs)]
        consumableRtxCodec ==
            [ ZeroCodec EXCEPT !.MimeType = consumableCapRtxCodec.MimeType,
                               !.ClockRate = consumableCapRtxCodec.ClockRate,
                               !.Channels = consumableCapRtxCodec.Channels,
                               !.RtcpFeedback = consumableCapRtxCodec.RtcpFeedback,
                               !.Parameters = consumableCapRtxCodec.Parameters,
                               !.PayloadType = consumableCapRtxCodec.PreferredPayloadType ]
    IN [st EXCEPT !.Codecs = st.Codecs \o << consumableCodec, consumableRtxCodec >>]

RECURSIVE ConsumableLoop(_, _, _, _, _, _)
ConsumableLoop(st, codecs, caps, mapping, h, k) ==
    IF k > Len(codecs) \/ st.ret THEN st
    ELSE ConsumableLoop(ConsumableStep(st, codecs[k], caps, mapping, h),
                        codecs, caps, mapping, h, k + 1)

\* lines 335-350
IsConsumableExt(k, capExt) ==
    ~ \/ capExt.Kind # k
      \/ capExt.Uri = "urn:ietf:params:rtp-hdrext:sdes:mid"
      \/ capExt.Uri = "urn:ietf:params:rtp-hdrext:sdes:rtp-stream-id"
      \/ capExt.Uri = "urn:ietf:params:rtp-hdrext:sdes:repaired-rtp-stream-id"

RECURSIVE ConsumableHeaderExtensions(_, _, _)
ConsumableHeaderExtensions(k, capExts, n) ==
    IF n > Len(capExts) THEN << >>
    ELSE (IF IsConsumableExt(k, capExts[n])
          THEN << [ Kind |-> "", Uri |-> capExts[n].Uri, Id |-> capExts[n].PreferredId,
                    PreferredId |-> 0 ] >>
          ELSE << >>)
         \o ConsumableHeaderExtensions(k, capExts, n + 1)

\* lines 352-359
ConsumableEncodings(encodings, mapping) ==
    [ i \in 1..Len(encodings) |->
        [ encodings[i] EXCEPT !.Rid = "", !.Rtx = << >>, !.CodecPayloadType = 0,
                              !.Ssrc = mapping.Encodings[i].MappedSsrc ] ]

\* the values (consumableParams, err) the call returns
GetConsumableRtpParameters(k, params, caps, mapping, h) ==
    LET st == ConsumableLoop([ Codecs |-> << >>, err |-> "none", ret |-> FALSE ],
                             params.Codecs, caps, mapping, h, 1)
    IN
    IF st.ret
    THEN [ consumableParams |-> [ZeroParams EXCEPT !.Codecs = st.Codecs], err |-> st.err ]
    ELSE IF Len(mapping.Encodings) < Len(params.Encodings)
    THEN \* rtpMapping.Encodings[i]: index out of range
         [ consumableParams |->
             [ZeroParams EXCEPT !.Codecs = st.Codecs,
                                !.HeaderExtensions =
                                    ConsumableHeaderExtensions(k, caps.HeaderExtensions, 1)],
           err |-> "panic" ]
    ELSE [ consumableParams |->
             [ Codecs |-> st.Codecs,
               HeaderExtensions |-> ConsumableHeaderExtensions(k, caps.HeaderExtensions, 1),
               Encodings |-> ConsumableEncodings(params.Encodings, mapping),
               Rtcp |-> [ Cname |-> params.Rtcp.Cname, ReducedSize |-> TRUE,
                          Mux |-> "true" ] ],
           err |-> "none" ]

-----------------------------------------------------------------------------
(* CanConsume *)

\* lines 386-394: the capability codecs matched, in the order of codecs
RECURSIVE MatchingCapCodecs(_, _, _, _)
MatchingCapCodecs(codecs, capCodecs, h, k) ==
    IF k > Len(codecs) THEN << >>
    ELSE LET sel == selectMatchedCodecs(codecs[k], capCodecs, codecMatchStrict, h)
         IN (IF sel.matched THEN << sel.codec >> ELSE << >>)
            \o MatchingCapCodecs(codecs, capCodecs, h, k + 1)

CanConsume(consumable, caps, h) ==
    IF \E n \in 1..Len(caps.Codecs) : checkCodecCapabilityErr(caps.Codecs[n]) # "none"
    THEN FALSE
    ELSE LET capCodecs == [ n \in 1..Len(caps.Codecs) |->
                              checkCodecCapability(caps.Codecs[n]) ]
             matchingCodecs == MatchingCapCodecs(consumable.Codecs, capCodecs, h, 1)
         IN ~ (Len(matchingCodecs) = 0 \/ IsRtxExact(matchingCodecs[1]))

-----------------------------------------------------------------------------
(* GetConsumerRtpParameters *)

\* lines 428-442: the consumable codecs retained, each with the feedback of
\* the capability codec it matched
RECURSIVE ConsumerCodecs(_, _, _, _)
ConsumerCodecs(codecs, capCodecs, h, k) ==
    IF k > Len(codecs) THEN << >>
    ELSE LET sel == selectMatchedCodecs(codecs[k], capCodecs, codecMatchStrict, h)
         IN (IF sel.matched
             THEN << [codecs[k] EXCEPT !.RtcpFeedback = sel.codec.RtcpFeedback] >>
             ELSE << >>)
            \o ConsumerCodecs(codecs, capCodecs, h, k + 1)

\* lines 451-459
RECURSIVE ConsumerHeaderExtensions(_, _, _)
ConsumerHeaderExtensions(exts, capExts, k) ==
    IF k > Len(exts) THEN << >>
    ELSE (IF \E m \in 1..Len(capExts) : capExts[m].PreferredId = exts[k].Id
          THEN << exts[k] >> ELSE << >>)
         \o ConsumerHeaderExtensions(exts, capExts, k + 1)

\* the values (consumerParams, err) the call returns; random1 and random2
\* are what generateRandomNumber() returns
GetConsumerRtpParameters(consumable, caps, h, random1, random2) ==
    IF \E n \in 1..Len(caps.Codecs) : checkCodecCapabilityErr(caps.Codecs[n]) # "none"
    THEN [ consumerParams |-> ZeroParams, err |-> "TypeError" ]
    ELSE
    LET codecs == ConsumerCodecs(consumable.Codecs, caps.Codecs, h, 1)
        rtxSupported == \E n \in 1..Len(codecs) : IsRtxExact(codecs[n])
    IN
    IF Len(codecs) = 0 \/ IsRtxExact(codecs[1])
    THEN [ consumerParams |-> [ZeroParams EXCEPT !.Codecs = codecs],
           err |-> "UnsupportedError" ]
    ELSE [ consumerParams |->
             [ Codecs |-> codecs,
               HeaderExtensions |->
                   ConsumerHeaderExtensions(consumable.HeaderExtensions,
                                            caps.HeaderExtensions, 1),
               Encodings |-> << [ Rid |-> "", Ssrc |-> random1, CodecPayloadType |-> 0,
                                  Rtx |-> IF rtxSupported THEN << random2 >>
                                          ELSE << >> ] >>,
               Rtcp |-> consumable.Rtcp ],
           err |-> "none" ]

-----------------------------------------------------------------------------
(* GetPipeConsumerRtpParameters *)

\* lines 502-503
PipeKeepsFeedback(fb) ==
    \/ fb.Type = "nack" /\ fb.Parameter = "pli"
    \/ fb.Type = "ccm" /\ fb.Parameter = "fir"

\* an RTX test without ToLower, as lines 398, 439 and 446 have it
PipeDropsCodecExact(codec) == HasSuffix(codec.MimeType, sSlashRtx)

\* strings.HasSuffix(strings.ToLower(codec.MimeType), "/rtx") at line 495
PipeDropsCodec(codec) == HasSuffix(ToLower(codec.MimeType), sSlashRtx)

RECURSIVE PipeFeedback(_, _)
PipeFeedback(fbs, k) ==
    IF k > Len(fbs) THEN << >>
    ELSE (IF PipeKeepsFeedback(fbs[k]) THEN << fbs[k] >> ELSE << >>)
         \o PipeFeedback(fbs, k + 1)

RECURSIVE PipeCodecs(_, _)
PipeCodecs(codecs, k) ==
    IF k > Len(codecs) THEN << >>
    ELSE (IF PipeDropsCodec(codecs[k]) THEN << >>
          ELSE << [codecs[k] EXCEPT !.RtcpFeedback = PipeFeedback(codecs[k].RtcpFeedback, 1)] >>)
         \o PipeCodecs(codecs, k + 1)

RECURSIVE PipeHeaderExtensions(_, _)
PipeHeaderExtensions(exts, k) ==
    IF k > Len(exts) THEN << >>
    ELSE (IF exts[k].Uri # "http://www.webrtc.org/experiments/rtp-hdrext/abs-send-time"
          THEN << exts[k] >> ELSE << >>)
         \o PipeHeaderExtensions(exts, k + 1)

GetPipeConsumerRtpParameters(consumable) ==
    [ Rtcp |-> consumable.Rtcp,
      Codecs |-> PipeCodecs(consumable.Codecs, 1),
      HeaderExtensions |-> PipeHeaderExtensions(consumable.HeaderExtensions, 1),
      Encodings |-> [ i \in 1..Len(consumable.Encodings) |->
                        [consumable.Encodings[i] EXCEPT !.Rtx = << >>] ] ]

-----------------------------------------------------------------------------
(* Inputs.  A codec is written with its parameter object inline (<< >> for  *)
(* a nil pointer, << object >> otherwise); Load gives every object its own  *)
(* address.                                                                 *)

Codec(k, mime, clock, channels, pt, ppt, params, fb) ==
    [ Kind |-> k, MimeType |-> mime, ClockRate |-> clock, Channels |-> channels,
      PayloadType |-> pt, PreferredPayloadType |-> ppt, Parameters |-> params,
      RtcpFeedback |-> fb ]

\* the number of the first k codecs that have a parameter object
ObjectsUpTo(codecs, k) == Cardinality({ j \in 1..k : Len(codecs[j].Parameters) # 0 })

HasObject(codec) == Len(codec.Parameters) # 0

\* the codecs with their objects placed on heap h, in order
Load(codecs, h, k) ==
    [ codecs |-> [ j \in 1..Len(codecs) |->
                     [codecs[j] EXCEPT !.Parameters =
                         IF Len(codecs[j].Parameters) = 0 THEN 0
                         ELSE Len(h) + ObjectsUpTo(codecs, j)] ],
      heap |-> h \o [ j \in 1..ObjectsUpTo(codecs, Len(codecs)) |->
                        SelectSeq(codecs, HasObject)[j].Parameters[1] ] ]

H264Parameter(mode, id, asym) ==
    [ ZeroParameter EXCEPT !.PacketizationMode = mode, !.ProfileLevelId = id,
                           !.LevelAsymmetryAllowed = asym ]
AptParameter(apt) == [ ZeroParameter EXCEPT !.Apt = apt ]

Feedback(type, parameter) == [ Type |-> type, Parameter |-> parameter ]
HeaderExtension(k, uri, id, preferredId) ==
    [ Kind |-> k, Uri |-> uri, Id |-> id, PreferredId |-> preferredId ]
Encoding(rid, ssrc, pt, rtx) ==
    [ Rid |-> rid, Ssrc |-> ssrc, CodecPayloadType |-> pt, Rtx |-> rtx ]

mOpus == << "a","u","d","i","o","/","o","p","u","s" >>
mPCMA == << "a","u","d","i","o","/","P","C","M","A" >>
mVP8  == << "v","i","d","e","o","/","V","P","8" >>
mvp8  == << "v","i","d","e","o","/","v","p","8" >>
mVP9  == << "v","i","d","e","o","/","V","P","9" >>
mH264 == << "v","i","d","e","o","/","H","2","6","4" >>
mRtx  == << "v","i","d","e","o","/","r","t","x" >>
mRTX  == << "v","i","d","e","o","/","R","T","X" >>

VideoFeedback ==
    << Feedback("nack", ""), Feedback("nack", "pli"), Feedback("ccm", "fir"),
       Feedback("goog-remb", "") >>

\* The table GetSupportedRtpCapabilities() returns: codecs that need dynamic
\* allocation and PCMA with its static payload type 8
SupportedCodecTable ==
    << Codec(sAudio, mOpus, 48000, 2, 0, 0, << >>, << Feedback("transport-cc", "") >>),
       Codec(sAudio, mPCMA, 8000, 0, 0, 8, << >>, << >>),
       Codec(sVideo, mVP8, 90000, 0, 0, 0, << >>, VideoFeedback),
       Codec(sVideo, mH264, 90000, 0, 0, 0, << H264Parameter(1, "", 1) >>, VideoFeedback),
       Codec(sVideo, mH264, 90000, 0, 0, 0, << H264Parameter(0, "", 1) >>, VideoFeedback) >>

SupportedHeaderExtensions ==
    << HeaderExtension("audio", "urn:ietf:params:rtp-hdrext:sdes:mid", 0, 1),
       HeaderExtension("video", "urn:ietf:params:rtp-hdrext:sdes:mid", 0, 1),
       HeaderExtension("video",
                       "http://www.webrtc.org/experiments/rtp-hdrext/abs-send-time", 0, 4),
       HeaderExtension("audio", "urn:ietf:params:rtp-hdrext:ssrc-audio-level", 0, 10) >>

\* sequences over S of length at most n
SeqsUpTo(S, n) == UNION { [1..m -> S] : m \in 0..n }

Repeat(x, n) == [ i \in 1..n |-> x ]

\* configured codecs (mediaCodecs)
cOpus == Codec(<< >>, mOpus, 48000, 2, 0, 0, << >>, << >>)
cPCMA == Codec(<< >>, mPCMA, 8000, 0, 0, 0, << >>, << >>)
cVp8  == Codec(<< >>, mvp8, 90000, 0, 0, 0, << >>, << >>)
cH264Base == Codec(sVideo, mH264, 90000, 0, 0, 0, << H264Parameter(1, "42e01e", 0) >>, << >>)
cH264Main == Codec(sVideo, mH264, 90000, 0, 0, 0, << H264Parameter(1, "4d001f", 0) >>, << >>)
cH264Mode0 == Codec(sVideo, mH264, 90000, 0, 0, 0, << >>, << >>)
cVP9  == Codec(<< >>, mVP9, 90000, 0, 0, 0, << >>, << >>)
cInvalid == Codec(<< >>, mOpus, 0, 0, 0, 0, << >>, << >>)

ConfiguredCodecs == { cOpus, cPCMA, cVp8, cH264Base, cH264Main, cH264Mode0, cVP9, cInvalid }

ShortConfigs == SeqsUpTo(ConfiguredCodecs, MaxMediaCodecs)

\* runs of audio and video codecs, << audio codecs, video codecs >>, mostly
\* of one kind, that take about as many pool entries as the pool has, or
\* about 74
RunLengths ==
    { r \in (0..MaxRun) \X (0..MaxRun) :
        /\ r[1] + 2 * r[2] \in ((MaxRun - 3)..MaxRun) \cup (73..76)
        /\ r[1] <= 3 \/ r[2] <= 2 }

LongConfigs ==
    { Repeat(cOpus, r[1]) \o Repeat(cVp8, r[2]) : r \in RunLengths }
    \cup { Repeat(cVp8, r[2]) \o Repeat(cOpus, r[1]) : r \in RunLengths }

\* producer codecs (params.Codecs of GetProducerRtpParametersMapping)
pOpus == Codec(<< >>, mOpus, 48000, 2, 111, 0, << >>, << >>)
pVp8  == Codec(<< >>, mVP8, 90000, 0, 96, 0, << >>, << >>)
pRtx  == Codec(<< >>, mRtx, 90000, 0, 97, 0, << AptParameter(96) >>, << >>)
pH264 == Codec(<< >>, mH264, 90000, 0, 102, 0, << H264Parameter(1, "42e01f", 0) >>, << >>)
pVP9  == Codec(<< >>, mVP9, 90000, 0, 98, 0, << >>, << >>)
pInvalid == Codec(<< >>, << >>, 90000, 0, 99, 0, << >>, << >>)

ProducerCodecs == { pOpus, pVp8, pRtx, pH264, pVP9, pInvalid }

PipelineConfigs == SeqsUpTo({ cOpus, cVp8, cH264Base }, MaxMediaCodecs - 1)

\* the rest of the producer parameters and the kind: [exts, encodings, kind]
ProducerRest ==
    { [ exts |-> << >>, encodings |-> << >>, kind |-> "audio" ],
      [ exts |-> << HeaderExtension("", "urn:ietf:params:rtp-hdrext:sdes:mid", 3, 0) >>,
        encodings |-> << Encoding("r0", 1111, 96, << 1112 >>) >>,
        kind |-> "video" ],
      [ exts |-> << HeaderExtension("video", "urn:3gpp:video-orientation", 5, 0) >>,
        encodings |-> << Encoding("", 1111, 0, << >>) >>,
        kind |-> "video" ] }

\* generateRandomNumber()
RandomNumbers == { 70001, 70002 }

\* consumable codecs (consumableParams.Codecs of the consumer calls)
uOpus == Codec(<< >>, mOpus, 48000, 2, 100, 0, << >>, << >>)
uVp8  == Codec(<< >>, mVP8, 90000, 0, 101, 0, << >>, VideoFeedback)
uRtx  == Codec(<< >>, mRtx, 90000, 0, 102, 0, << AptParameter(101) >>, << >>)
uH264 == Codec(<< >>, mH264, 90000, 0, 103, 0, << H264Parameter(1, "42e01f", 1) >>,
               << Feedback("nack", "pli"), Feedback("transport-cc", "") >>)
uRTX  == Codec(<< >>, mRTX, 90000, 0, 104, 0, << AptParameter(103) >>, << >>)

ConsumableCodecs == { uOpus, uVp8, uRtx, uH264, uRTX }

\* codecs of a consumer's capabilities
kOpus == Codec(sAudio, mOpus, 48000, 2, 0, 100, << >>, << Feedback("transport-cc", "") >>)
kVp8  == Codec(sVideo, mvp8, 90000, 0, 0, 101, << >>, << Feedback("nack", "pli") >>)
kRtx  == Codec(sVideo, mRtx, 90000, 0, 0, 102, << AptParameter(101) >>, << >>)
kRTX  == Codec(sVideo, mRTX, 90000, 0, 0, 104, << AptParameter(103) >>, << >>)
kH264Base == Codec(sVideo, mH264, 90000, 0, 0, 103, << H264Parameter(1, "42e01e", 1) >>,
                   << Feedback("nack", "") >>)
kH264Main == Codec(sVideo, mH264, 90000, 0, 0, 105, << H264Parameter(1, "4d001f", 1) >>,
                   << >>)
kInvalid == Codec(<< >>, mOpus, 0, 0, 0, 0, << >>, << >>)

ConsumerCapCodecs == { kOpus, kVp8, kRtx, kRTX, kH264Base, kH264Main, kInvalid }

ConsumableRest ==
    [ HeaderExtensions |->
        << HeaderExtension("", "http://www.webrtc.org/experiments/rtp-hdrext/abs-send-time",
                           4, 0),
           HeaderExtension("", "urn:ietf:params:rtp-hdrext:ssrc-audio-level", 10, 0) >>,
      Encodings |-> << Encoding("", 70001, 0, << 70002 >>) >>,
      Rtcp |-> [ Cname |-> "cname", ReducedSize |-> TRUE, Mux |-> "true" ] ]

ConsumerCapExts ==
    << HeaderExtension("audio", "urn:ietf:params:rtp-hdrext:ssrc-audio-level", 0, 10) >>

-----------------------------------------------------------------------------
(* The state machine *)

NoConsumer ==
    /\ consumerCaps = ZeroCaps
    /\ canConsume = "unset"
    /\ consumerParams = ZeroParams
    /\ consumerErr = "none"
    /\ pipeParams = ZeroParams

NoResults ==
    /\ routerCaps = ZeroCaps
    /\ routerErr = "none"
    /\ rtpMapping = ZeroMapping
    /\ mappingErr = "none"
    /\ consumableErr = "none"

\* a router is configured and a producer's parameters are given
Init ==
    \E table \in { SupportedCodecTable }, config \in PipelineConfigs,
       codecs \in SeqsUpTo(ProducerCodecs, MaxProducerCodecs), rest \in ProducerRest :
        LET s == Load(table, << >>, 1)
            m == Load(config, s.heap, 1)
            p == Load(codecs, m.heap, 1)
        IN /\ pc = "config"
           /\ heap = p.heap
           /\ heap0 = p.heap
           /\ supportedCodecs = s.codecs
           /\ supportedExts = SupportedHeaderExtensions
           /\ mediaCodecs = m.codecs
           /\ kind = rest.kind
           /\ producerParams = [ Codecs |-> p.codecs, HeaderExtensions |-> rest.exts,
                                 Encodings |-> rest.encodings,
                                 Rtcp |-> [ Cname |-> "cname", ReducedSize |-> FALSE,
                                            Mux |-> "nil" ] ]
           /\ consumableParams = ZeroParams
           /\ NoResults
           /\ NoConsumer

\* a router is configured
InitRouter ==
    \E table \in { SupportedCodecTable },
       config \in ShortConfigs \cup LongConfigs :
        LET s == Load(table, << >>, 1)
            m == Load(config, s.heap, 1)
        IN /\ pc = "config"
           /\ heap = m.heap
           /\ heap0 = m.heap
           /\ supportedCodecs = s.codecs
           /\ supportedExts = SupportedHeaderExtensions
           /\ mediaCodecs = m.codecs
           /\ kind = ""
           /\ producerParams = ZeroParams
           /\ consumableParams = ZeroParams
           /\ NoResults
           /\ NoConsumer

\* consumable parameters and a consumer's capabilities are given
InitConsumer ==
    \E codecs \in SeqsUpTo(ConsumableCodecs, MaxConsumableCodecs),
       capCodecs \in SeqsUpTo(ConsumerCapCodecs, MaxCapCodecs) :
        LET u == Load(codecs, << >>, 1)
            k == Load(capCodecs, u.heap, 1)
        IN /\ pc = "given"
           /\ heap = k.heap
           /\ heap0 = k.heap
           /\ supportedCodecs = << >>
           /\ supportedExts = << >>
           /\ mediaCodecs = << >>
           /\ kind = ""
           /\ producerParams = ZeroParams
           /\ consumableParams = [ Codecs |-> u.codecs,
                                   HeaderExtensions |-> ConsumableRest.HeaderExtensions,
                                   Encodings |-> ConsumableRest.Encodings,
                                   Rtcp |-> ConsumableRest.Rtcp ]
           /\ NoResults
           /\ consumerCaps = [ Codecs |-> k.codecs, HeaderExtensions |-> ConsumerCapExts ]
           /\ canConsume = "unset"
           /\ consumerParams = ZeroParams
           /\ consumerErr = "none"
           /\ pipeParams = ZeroParams

GenerateRouterRtpCapabilitiesCall ==
    /\ pc = "config"
    /\ \E r \in { GenerateRouterRtpCapabilities(mediaCodecs, supportedCodecs,
                                                supportedExts, heap) } :
          /\ routerCaps' = r.caps
          /\ routerErr' = r.err
          /\ heap' = r.heap
    /\ pc' = "router"
    /\ UNCHANGED << heap0, supportedCodecs, supportedExts, mediaCodecs, kind,
                    producerParams, rtpMapping, mappingErr, consumableParams,
                    consumableErr, consumerCaps, canConsume, consumerParams,
                    consumerErr, pipeParams >>

GetProducerRtpParametersMappingCall ==
    /\ pc = "router"
    /\ routerErr = "none"
    /\ \E r \in { GetProducerRtpParametersMapping(producerParams, routerCaps, heap,
                                                  order, random) :
                    order \in Permutations(1..Len(producerParams.Codecs)),
                    random \in [1..Len(producerParams.Encodings) -> RandomNumbers] } :
          /\ rtpMapping' = r.rtpMapping
          /\ mappingErr' = r.err
          /\ heap' = r.heap
    /\ pc' = "mapped"
    /\ UNCHANGED << heap0, supportedCodecs, supportedExts, mediaCodecs, routerCaps,
                    routerErr, kind, producerParams, consumableParams, consumableErr,
                    consumerCaps, canConsume, consumerParams, consumerErr, pipeParams >>

GetConsumableRtpParametersCall ==
    /\ pc = "mapped"
    /\ mappingErr = "none"
    /\ \E r \in { GetConsumableRtpParameters(kind, producerParams, routerCaps,
                                             rtpMapping, heap) } :
          /\ consumableParams' = r.consumableParams
          /\ consumableErr' = r.err
    /\ pc' = "consumable"
    /\ UNCHANGED << heap, heap0, supportedCodecs, supportedExts, mediaCodecs, routerCaps,
                    routerErr, kind, producerParams, rtpMapping, mappingErr,
                    consumerCaps, canConsume, consumerParams, consumerErr, pipeParams >>

CanConsumeCall ==
    /\ pc = "given"
    /\ canConsume' = IF CanConsume(consumableParams, consumerCaps, heap)
                     THEN "true" ELSE "false"
    /\ pc' = "canConsume"
    /\ UNCHANGED << heap, heap0, supportedCodecs, supportedExts, mediaCodecs, routerCaps,
                    routerErr, kind, producerParams, rtpMapping, mappingErr,
                    consumableParams, consumableErr, consumerCaps, consumerParams,
                    consumerErr, pipeParams >>

GetConsumerRtpParametersCall ==
    /\ pc = "given"
    /\ \E r \in { GetConsumerRtpParameters(consumableParams, consumerCaps, heap,
                                           random1, random2) :
                    random1 \in RandomNumbers, random2 \in RandomNumbers } :
          /\ consumerParams' = r.consumerParams
          /\ consumerErr' = r.err
    /\ pc' = "consumer"
    /\ UNCHANGED << heap, heap0, supportedCodecs, supportedExts, mediaCodecs, routerCaps,
                    routerErr, kind, producerParams, rtpMapping, mappingErr,
                    consumableParams, consumableErr, consumerCaps, canConsume,
                    pipeParams >>

GetPipeConsumerRtpParametersCall ==
    /\ pc = "given"
    /\ pipeParams' = GetPipeConsumerRtpParameters(consumableParams)
    /\ pc' = "pipe"
    /\ UNCHANGED << heap, heap0, supportedCodecs, supportedExts, mediaCodecs, routerCaps,
                    routerErr, kind, producerParams, rtpMapping, mappingErr,
                    consumableParams, consumableErr, consumerCaps, canConsume,
                    consumerParams, consumerErr >>

Next ==
    \/ GenerateRouterRtpCapabilitiesCall
    \/ GetProducerRtpParametersMappingCall
    \/ GetConsumableRtpParametersCall

NextRouter == GenerateRouterRtpCapabilitiesCall

NextConsumer ==
    \/ CanConsumeCall
    \/ GetConsumerRtpParametersCall
    \/ GetPipeConsumerRtpParametersCall

Spec == Init /\ [][Next]_vars
SpecRouter == InitRouter /\ [][NextRouter]_vars
SpecConsumer == InitConsumer /\ [][NextConsumer]_vars

-----------------------------------------------------------------------------
(* Properties *)

PayloadTypesOf(codecs) == [ i \in 1..Len(codecs) |-> codecs[i].PreferredPayloadType ]

IsMediaCodec(codec) == ~IsRtxLower(codec)

\* the supported entry the i-th configured codec matches, on the heap as it
\* was before the build
SupportedMatch(i) ==
    selectMatchedCodecs(checkCodecCapability(mediaCodecs[i]), supportedCodecs,
                        codecMatchNormal, heap0)

\* every configured codec is valid, is supported and needs dynamic allocation
AllDynamic ==
    /\ Len(mediaCodecs) > 0
    /\ \A i \in 1..Len(mediaCodecs) :
        /\ checkCodecCapabilityErr(mediaCodecs[i]) = "none"
        /\ SupportedMatch(i).matched
        /\ SupportedMatch(i).codec.PreferredPayloadType = 0

\* pool entries needed: one for an audio codec, two for a video codec
EntriesNeeded ==
    Len(mediaCodecs)
    + Cardinality({ i \in 1..Len(mediaCodecs) : SupportedMatch(i).codec.Kind = sVideo })

\* C1: in GetProducerRtpParametersMapping, if a non-RTX producer codec has no
\* StrictAndModify match among the router capability codecs (and the codecs
\* up to it are valid), the call returns an unsupported-codec error and no
\* mapping, wherever that codec stands in the list and whatever follows it.
C1_UnmatchedCodecIsAnError ==
    [][ ( /\ pc = "router"
          /\ pc' = "mapped"
          /\ \E i \in 1..Len(producerParams.Codecs) :
                /\ IsMediaCodec(producerParams.Codecs[i])
                /\ ~selectMatchedCodecs(producerParams.Codecs[i], routerCaps.Codecs,
                                        codecMatchStrictAndModify, heap).matched
                /\ \A j \in 1..i : checkCodecParameters(producerParams.Codecs[j]) = "none" )
        => ( mappingErr' = "UnsupportedError" /\ rtpMapping' = ZeroMapping ) ]_vars

\* C2 as stated: where every configured codec needs dynamic allocation, the
\* build succeeds exactly when at most 74 pool entries are needed, the pool
\* entries are assigned in the fixed order, and on exhaustion the call
\* returns the exhaustion error and no capability codec list at all.
C2_SucceedsUpTo74 ==
    (pc = "router" /\ AllDynamic) =>
        /\ routerErr = "none" <=> EntriesNeeded <= 74
        /\ routerErr = "none" =>
              PayloadTypesOf(routerCaps.Codecs) = SubSeq(DYNAMIC_PAYLOAD_TYPES, 1, EntriesNeeded)
        /\ routerErr # "none" => (routerErr = "Error" /\ routerCaps.Codecs = << >>)

\* C2 amended: where every codec of a non-empty configured list needs dynamic
\* allocation, the build succeeds exactly when at most
\* len(DYNAMIC_PAYLOAD_TYPES) = 88 pool entries are needed, the pool entries
\* are assigned in the fixed order 100..127, 96..99, 77..95, 35..71, and when
\* a codec or its RTX sibling would need an 89th entry the call returns the
\* exhaustion error, and the caps returned with it hold the codecs appended
\* until then, which took all 88 entries.
C2_SucceedsUpToPoolSize ==
    (pc = "router" /\ AllDynamic) =>
        /\ routerErr = "none" <=> EntriesNeeded <= Len(DYNAMIC_PAYLOAD_TYPES)
        /\ routerErr = "none" =>
              PayloadTypesOf(routerCaps.Codecs) = SubSeq(DYNAMIC_PAYLOAD_TYPES, 1, EntriesNeeded)
        /\ routerErr # "none" =>
              /\ routerErr = "Error"
              /\ PayloadTypesOf(routerCaps.Codecs) = DYNAMIC_PAYLOAD_TYPES
        /\ DYNAMIC_PAYLOAD_TYPES =
              [ i \in 1..88 |-> IF i <= 28 THEN 99 + i
                                ELSE IF i <= 32 THEN 67 + i
                                ELSE IF i <= 51 THEN 44 + i
                                ELSE i - 17 ]

\* a build that needed one entry more than the pool has, and one that needed
\* exactly as many
C2_Witness ==
    /\ pc = "router"
    /\ AllDynamic
    /\ EntriesNeeded = Len(DYNAMIC_PAYLOAD_TYPES) + 1
    /\ routerErr = "Error"
    /\ routerCaps.Codecs[Len(routerCaps.Codecs)].Kind = sVideo

\* C3: after a successful GenerateRouterRtpCapabilities, every video media
\* codec of the returned list is immediately followed by a codec with
\* mimeType "video/rtx", the same clockRate and apt equal to the video
\* codec's payload type; no audio codec is followed by an RTX codec; a single
\* VP8 gives payload types 100, 101 and a single opus gives one codec at 100.
C3_VideoFollowedByRtx ==
    (pc = "router" /\ routerErr = "none") =>
        LET cs == routerCaps.Codecs IN
        /\ \A i \in 1..Len(cs) :
            (cs[i].Kind = sVideo /\ IsMediaCodec(cs[i])) =>
                /\ i + 1 <= Len(cs)
                /\ cs[i + 1].MimeType = mRtx
                /\ cs[i + 1].ClockRate = cs[i].ClockRate
                /\ cs[i + 1].Parameters # 0
                /\ heap[cs[i + 1].Parameters].Apt = cs[i].PreferredPayloadType
        /\ \A i \in 1..Len(cs) :
            cs[i].Kind = sAudio => ~(i + 1 <= Len(cs) /\ IsRtxLower(cs[i + 1]))
        /\ \A i \in 1..Len(cs) :
            IsRtxLower(cs[i]) => (i > 1 /\ cs[i - 1].Kind = sVideo /\ IsMediaCodec(cs[i - 1]))
        /\ (Len(mediaCodecs) = 1 /\ mediaCodecs[1].MimeType = mvp8) =>
              (PayloadTypesOf(cs) = << 100, 101 >> /\ heap[cs[2].Parameters].Apt = 100)
        /\ (Len(mediaCodecs) = 1 /\ mediaCodecs[1].MimeType = mOpus) =>
              PayloadTypesOf(cs) = << 100 >>

\* a successful build with an audio codec and a video codec
C3_Witness ==
    /\ pc = "router"
    /\ routerErr = "none"
    /\ \E i \in 1..Len(routerCaps.Codecs) : routerCaps.Codecs[i].Kind = sAudio
    /\ \E i \in 1..Len(routerCaps.Codecs) :
          /\ routerCaps.Codecs[i].Kind = sVideo
          /\ IsRtxLower(routerCaps.Codecs[i])

\* C4: when GenerateRouterRtpCapabilities, GetProducerRtpParametersMapping
\* and GetConsumableRtpParameters each return without error, the payload type
\* of every consumable codec is the payload type of some router capability
\* codec, and every consumable RTX codec has apt equal to the payload type of
\* the consumable media codec immediately before it.
C4_RoundTrip ==
    (pc = "consumable" /\ consumableErr = "none") =>
        LET cs == consumableParams.Codecs IN
        /\ \A i \in 1..Len(cs) :
              \E n \in 1..Len(routerCaps.Codecs) :
                  routerCaps.Codecs[n].PreferredPayloadType = cs[i].PayloadType
        /\ \A i \in 1..Len(cs) :
              IsRtxLower(cs[i]) =>
                  /\ i > 1
                  /\ IsMediaCodec(cs[i - 1])
                  /\ Deref(heap, cs[i].Parameters).Apt = cs[i - 1].PayloadType

\* the first consumable codec that Strict-matches a capability codec, 0 if none
FirstMatching ==
    LET ms == { i \in 1..Len(consumableParams.Codecs) :
                  selectMatchedCodecs(consumableParams.Codecs[i], consumerCaps.Codecs,
                                      codecMatchStrict, heap).matched }
    IN IF ms = {} THEN 0 ELSE MinOf(ms)

AllCapsValid ==
    \A n \in 1..Len(consumerCaps.Codecs) :
        checkCodecCapabilityErr(consumerCaps.Codecs[n]) = "none"

\* C5: CanConsume returns true exactly when every capability codec is valid,
\* at least one consumable codec Strict-matches a capability codec, and the
\* first consumable codec that matches is not an RTX codec.  Stated so that it
\* follows from the claim whether "RTX codec" is read as a mimeType ending in
\* "/rtx" exactly or in any letter case: true is returned only if the first
\* match does not end in "/rtx" exactly, and is returned if it does not end
\* in "/rtx" in any letter case.
C5_CanConsumeIffMediaFirst ==
    pc = "canConsume" =>
        /\ canConsume = "true" =>
              /\ AllCapsValid
              /\ FirstMatching # 0
              /\ ~IsRtxExact(consumableParams.Codecs[FirstMatching])
        /\ ( /\ AllCapsValid
             /\ FirstMatching # 0
             /\ ~IsRtxLower(consumableParams.Codecs[FirstMatching]) )
           => canConsume = "true"

KeptByPipe(fb) == fb \in { Feedback("nack", "pli"), Feedback("ccm", "fir") }

\* C6: the codec list GetPipeConsumerRtpParameters returns is the consumable
\* codec list with every RTX codec removed and the order of the others kept,
\* each codec's rtcpFeedback being the order-preserving sub-list of its input
\* feedback whose entries equal (nack,pli) or (ccm,fir); the feedback
\* [(nack,""),(nack,pli),(ccm,fir),(goog-remb,"")] becomes
\* [(nack,pli),(ccm,fir)].
C6_PipeDropsRtxAndFiltersFeedback ==
    pc = "pipe" =>
        LET kept == SelectSeq(consumableParams.Codecs, IsMediaCodec)
            out == pipeParams.Codecs
        IN /\ Len(out) = Len(kept)
           /\ \A i \in 1..Len(out) :
                /\ out[i].RtcpFeedback = SelectSeq(kept[i].RtcpFeedback, KeptByPipe)
                /\ [out[i] EXCEPT !.RtcpFeedback = << >>, !.Parameters = 0]
                     = [kept[i] EXCEPT !.RtcpFeedback = << >>, !.Parameters = 0]
                /\ Deref(heap, out[i].Parameters) = Deref(heap, kept[i].Parameters)
                /\ kept[i].RtcpFeedback = VideoFeedback =>
                     out[i].RtcpFeedback = << Feedback("nack", "pli"), Feedback("ccm", "fir") >>

\* a pipe derivation that dropped an RTX codec (one of them in upper case)
\* and filtered the four-entry feedback
C6_Witness ==
    /\ pc = "pipe"
    /\ \E i \in 1..Len(consumableParams.Codecs) :
          consumableParams.Codecs[i].MimeType = mRTX
    /\ \E i \in 1..Len(consumableParams.Codecs) :
          consumableParams.Codecs[i].RtcpFeedback = VideoFeedback
    /\ Len(pipeParams.Codecs) = 1

\* C7: the profile-level-id write of a StrictAndModify match inside
\* GetProducerRtpParametersMapping is confined to a private copy: after the
\* call the caller's producer parameters (every codec's parameters) and the
\* router capability codecs are unchanged.
C7_MappingLeavesParametersUnchanged ==
    [][ (pc = "router" /\ pc' = "mapped") =>
          /\ producerParams' = producerParams
          /\ \A i \in 1..Len(producerParams.Codecs) :
                Deref(heap', producerParams.Codecs[i].Parameters)
                    = Deref(heap, producerParams.Codecs[i].Parameters)
          /\ routerCaps' = routerCaps
          /\ \A n \in 1..Len(routerCaps.Codecs) :
                Deref(heap', routerCaps.Codecs[n].Parameters)
                    = Deref(heap, routerCaps.Codecs[n].Parameters) ]_vars

\* C8: in the list a successful GenerateRouterRtpCapabilities returns, the
\* parameters of the media codec produced for the i-th configured codec are
\* the matched supported entry's original default parameters overridden by
\* the i-th configured codec's own parameters, for every i, also when two
\* configured codecs match the same supported entry.
C8_ParametersAreDefaultsOverridden ==
    (pc = "router" /\ routerErr = "none") =>
        LET out == SelectSeq(routerCaps.Codecs, IsMediaCodec) IN
        /\ Len(out) = Len(mediaCodecs)
        /\ \A i \in 1..Len(mediaCodecs) :
              Deref(heap, out[i].Parameters)
                  = MergeWithOverride(Deref(heap0, SupportedMatch(i).codec.Parameters),
                                      Deref(heap0, mediaCodecs[i].Parameters))

\* C9: after a successful GenerateRouterRtpCapabilities the payload types of
\* all codecs of the returned list are pairwise distinct.
C9_PayloadTypesDistinct ==
    (pc = "router" /\ routerErr = "none") =>
        \A i, j \in 1..Len(routerCaps.Codecs) :
            i # j => routerCaps.Codecs[i].PreferredPayloadType
                       # routerCaps.Codecs[j].PreferredPayloadType

\* in codecs every RTX codec, in whatever letter case its mimeType is written,
\* directly follows the media codec its apt names
RtxFollowsItsMediaCodec(codecs) ==
    \A i \in 1..Len(codecs) :
        IsRtxLower(codecs[i]) =>
            /\ i > 1
            /\ IsMediaCodec(codecs[i - 1])
            /\ codecs[i - 1].PayloadType = Deref(heap, codecs[i].Parameters).Apt

\* C10: in the codec list a successful GetConsumerRtpParameters returns, for
\* consumable parameters in which each RTX codec directly follows the media
\* codec its apt names, every retained RTX codec is immediately preceded by a
\* retained media codec whose payload type equals that RTX codec's apt.
\* Stated for the retained codecs whose mimeType ends in "/rtx" exactly, so
\* that it follows from the claim in either reading of "RTX codec".
C10_RetainedRtxFollowsItsMediaCodec ==
    ( /\ pc = "consumer"
      /\ consumerErr = "none"
      /\ RtxFollowsItsMediaCodec(consumableParams.Codecs) )
    => \A i \in 1..Len(consumerParams.Codecs) :
          IsRtxExact(consumerParams.Codecs[i]) =>
              /\ i > 1
              /\ ~IsRtxExact(consumerParams.Codecs[i - 1])
              /\ consumerParams.Codecs[i - 1].PayloadType
                    = Deref(heap, consumerParams.Codecs[i].Parameters).Apt

====
